---- MODULE Spec2Model ----
(***************************************************************************)
(* McpBridge: the stdio JSON-RPC bridge of openclaw-sage (mcp-bridge.ts).  *)
(*                                                                         *)
(* The bridge runs on one event loop.  One action of the model is one      *)
(* uninterruptible run of bridge code: a public method up to its first     *)
(* await, an event-listener callback, or the continuation of an await      *)
(* (a microtask).  Between the runs the environment acts: child processes  *)
(* answer, fail to spawn or exit, and the back-off timers elapse.          *)
(***************************************************************************)
EXTENDS Integers, Sequences, FiniteSets, TLC

\* ---- bounds of the exploration ----
MaxProcs == 3        \* child processes spawned in one behaviour
MaxStarts == 2       \* start() invocations in one behaviour
MaxCalls == 2        \* listTools()/callTool() invocations in one behaviour
MaxChildren == 7     \* child processes spawned in one behaviour of the
                     \* supervisor on its own (SpecSupervisor)
MaxBlocks == 2       \* content blocks in one tools/call result
MaxLists == 3        \* listTools() invocations in one behaviour of
                     \* SpecListTools
MaxTools == 2        \* tool descriptors in one tools/list result
MaxRuns == 2         \* invocations of the hook and of execute callbacks in
                     \* one behaviour
MaxClock == 5        \* minutes that pass in one behaviour

\* ---- program constants ----
MAX_RETRIES == 3

NullCode == -1       \* the `null` exit code of a child ended by a signal
ExitCodes == {0, 1, NullCode}

Kinds == {"initStart", "initCrash", "readyStart", "readyCrash", "catch"}

VARIABLES
    proc,        \* this.proc: 0 for null, else the index of the child in procs
    rl,          \* this.rl: 0 for null, else the child whose stdout it reads
    pending,     \* this.pending: token -> the promise registered under it
    ready,       \* this.ready
    retries,     \* this.retries
    stopped,     \* this.stopped
    procs,       \* every ChildProcess object created by spawn()
    issued,      \* number of tokens generated so far (token = its rank)
    settles,     \* token -> how often its promise was resolved or rejected
    timers,      \* handleCrash activations waiting in the back-off setTimeout
    cancelled,   \* history: how many of them were waiting when stop() was
                 \* last called; timers of equal delay fire in the order
                 \* they were set, so these are the next to fire
    micro,       \* continuations queued behind an await, per kind
    spawnQ,      \* the children spawned by the start() calls whose
                 \* continuation of `await this.spawn()` is queued, oldest first
    starts,      \* number of start() invocations so far
    calls,       \* number of listTools()/callTool() invocations so far
    respawns,    \* history: spawns made by handleCrash since the last handshake
    everReady,   \* history: some handshake has completed
    errSinceStart, \* history: "error" was emitted since the last start()
    callerTurn,  \* code of the caller runs or is queued before the next I/O
    limit,       \* the bounds this behaviour is explored under (constant)
    lastOp,      \* history: the run of bridge code that produced this state
    ret,         \* the continuation of one listTools()/callTool() behind its
                 \* `await this.request(...)`: the result the request resolved
                 \* with and, once it has run, what the caller gets
    pluginCfg,   \* api.pluginConfig
    registered,  \* the tools handed to api.registerTool, in order
    frames,      \* the invocations of the hook and of execute callbacks
    scanCache,   \* scanCache: its entries in the order their keys were set
    clock,       \* Date.now(), in minutes
    scanCalls,   \* history: number of security_scan_text calls made
    svc          \* the invocation of the service's start()

vars == <<proc, rl, pending, ready, retries, stopped, procs, issued, settles,
          timers, cancelled, micro, spawnQ, starts, calls, respawns, everReady,
          errSinceStart, callerTurn, limit, lastOp, ret, pluginCfg,
          registered, frames, scanCache, clock, scanCalls, svc>>

\* The state of the plugin around the bridges.
plugin == <<pluginCfg, registered, frames, scanCache, clock, scanCalls, svc>>

\* The state outside the fields of the bridge object; the runs of the
\* bridge's methods and listeners leave it alone.
outer == <<ret, plugin>>

\* The fields of one bridge object, its children and its history.
inner == <<proc, rl, pending, ready, retries, stopped, procs, issued, settles,
           timers, cancelled, micro, spawnQ, starts, calls, respawns, everReady,
           errSinceStart, callerTurn, limit, lastOp>>

EmptyMap == [t \in {} |-> 0]

\* lastOp: op names the run; t the token it generated (0: none); settled the
\* promises it resolved or rejected; log the k of an emitted "retry k/3" log
\* (0: none); err whether it emitted "error"; code the exit code an exit
\* listener was called with; again whether this run is a stop() that
\* directly follows a stop(); line the kind of line handleLine was called
\* with ("": the run is not handleLine); threw whether the run ended by an
\* exception that nothing in the bridge catches.
Op(o, t, settled, log, err) ==
    [op |-> o, t |-> t, settled |-> settled, log |-> log, err |-> err,
     code |-> 0, again |-> (o = "stop" /\ lastOp.op = "stop"),
     line |-> "", threw |-> FALSE]

NoMicro == \A k \in Kinds : micro[k] = 0

\* The event loop delivers I/O and timer callbacks only when the microtask
\* queue is drained and the nextTick-deferred spawn errors have been emitted.
Idle == NoMicro /\ \A p \in DOMAIN procs : procs[p].st # "failed"

AddMicro(m, k, n) == [m EXCEPT ![k] = @ + n]

\* The caller invokes the public methods from its own callbacks, when no
\* continuation of the bridge is queued, or in the same tick as a
\* continuation of the bridge: synchronously after another of its calls, or
\* in the continuation of one of its awaits.
CallerOps == {"start", "startFailed", "stop", "listTools", "callTool"}

CallerCanRun == NoMicro \/ callerTurn

\* The caller has code in the tick of the next state if a continuation of
\* the bridge is queued there and the caller ran in this tick, or one of the
\* promises it awaits (a call, or start() itself) was just settled.
CallerTurn ==
    callerTurn' =
        /\ \E k \in Kinds : micro'[k] > 0
        /\ \/ callerTurn
           \/ lastOp'.op \in CallerOps \cup {"readyStart"}
           \/ \E s \in lastOp'.settled :
                 s.owner = "call" \/ (s.owner = "start" /\ s.how # "result")

\* this.proc?.stdin?.writable
Writable == proc # 0 /\ procs[proc].st \in {"alive", "failed"}

\* isReady()
isReady == ready /\ proc # 0 /\ ~stopped

OwnedBy(o) == {t \in DOMAIN pending : pending[t].owner = o}

\* the record of one settlement: the promise registered under token t, for
\* owner with argument arg, was settled how: "result" or "rpc" by the
\* response line with that id and that value, else "stopped", "crashed" or
\* "notRunning"; proc is the child the request was written to and spawned
\* the child that the start() awaiting the promise had spawned
Settlement(t, entry, how, id, value) ==
    [t |-> t, owner |-> entry.owner, arg |-> entry.arg, how |-> how,
     id |-> id, value |-> value, proc |-> entry.proc,
     spawned |-> entry.spawned]

\* rejectAll(reason) without `this.pending.clear()`
RejectAllKeep(reason) ==
    /\ pending' = pending
    /\ settles' = [t \in DOMAIN settles |->
                     IF t \in DOMAIN pending THEN settles[t] + 1
                     ELSE settles[t]]

\* a rejectAll(reason) that rejects with the crash message whatever the
\* reason it is given
RejectedAsCrash(reason) ==
    {Settlement(t, pending[t], "crashed", 0, 0) : t \in DOMAIN pending}

\* rejectAll(reason): the promises it rejects, and the table it leaves
Rejected(reason) ==
    {Settlement(t, pending[t], reason, 0, 0) : t \in DOMAIN pending}

RejectAll(reason) ==
    /\ pending' = EmptyMap
    /\ settles' = [t \in DOMAIN settles |->
                     IF t \in DOMAIN pending THEN settles[t] + 1
                     ELSE settles[t]]

\* handleCrash(err) without `this.ready = false`
HandleCrashStaysReady(o, code, m) ==
    /\ ready' = ready
    /\ RejectAll("crashed")
    /\ micro' = AddMicro(m, "catch", Cardinality(OwnedBy("crash")))
    /\ IF retries >= MAX_RETRIES
       THEN /\ errSinceStart' = TRUE
            /\ lastOp' = [Op(o, 0, Rejected("crashed"), 0, TRUE)
                           EXCEPT !.code = code]
            /\ UNCHANGED <<retries, timers>>
       ELSE /\ retries' = retries + 1
            /\ timers' = timers + 1
            /\ lastOp' = [Op(o, 0, Rejected("crashed"), retries + 1, FALSE)
                           EXCEPT !.code = code]
            /\ UNCHANGED errSinceStart

\* handleCrash(err) up to its first await, called by run o (an exit
\* listener called with code, an error listener or a catch clause); m is
\* the microtask table the caller leaves behind.
HandleCrash(o, code, m) ==
    /\ ready' = FALSE
    /\ RejectAll("crashed")
    /\ micro' = AddMicro(m, "catch", Cardinality(OwnedBy("crash")))
    /\ IF retries >= MAX_RETRIES
       THEN /\ errSinceStart' = TRUE
            /\ lastOp' = [Op(o, 0, Rejected("crashed"), 0, TRUE)
                           EXCEPT !.code = code]
            /\ UNCHANGED <<retries, timers>>
       ELSE /\ retries' = retries + 1
            /\ timers' = timers + 1
            /\ lastOp' = [Op(o, 0, Rejected("crashed"), retries + 1, FALSE)
                           EXCEPT !.code = code]
            /\ UNCHANGED errSinceStart

\* spawn(): the ChildProcess object and the fields it sets.  Of a child:
\*   st      "alive", "failed" (not started, "error" not yet emitted), "dead"
\*   killed  stop() sent it SIGTERM and its exit was not yet delivered
\*   hs      it answered an initialize request with a result
\*   notified  `notifications/initialized` was written to its stdin
\*   rl      the readline interface on its stdout: "open", "closed", "none"
\* The outcomes:
\*   "ok"      the child runs
\*   "enoent"  the child could not be started; its pipes exist and an
\*             "error" event is deferred to the next tick
\*   "nopipes" the child could not be started and has no stdin/stdout:
\*             spawn() rejects after attaching the listeners
SpawnOutcomes == {"ok", "enoent", "nopipes"}

\* A child whose exit or spawn error was delivered.  The lines a child wrote
\* are read before its exit is delivered, and readline closes when the
\* stdout it reads ends; what was written to its stdin is lost with it.
Dead(p) ==
    [procs EXCEPT ![p].st = "dead", ![p].killed = FALSE,
                  ![p].notified = FALSE,
                  ![p].rl = IF @ = "none" THEN "none" ELSE "closed"]

Spawn(outcome) ==
    LET n == Len(procs) + 1 IN
    /\ procs' = Append(procs,
                  [st |-> IF outcome = "ok" THEN "alive" ELSE "failed",
                   killed |-> FALSE,
                   hs |-> FALSE,
                   notified |-> FALSE,
                   rl |-> IF outcome = "nopipes" THEN "none" ELSE "open"])
    /\ IF outcome = "nopipes"
       THEN UNCHANGED <<proc, rl>>
       ELSE proc' = n /\ rl' = n

\* the bridge after `new McpBridge(...)`
Fresh ==
    /\ proc = 0
    /\ rl = 0
    /\ pending = EmptyMap
    /\ ready = FALSE
    /\ retries = 0
    /\ stopped = FALSE
    /\ procs = <<>>
    /\ issued = 0
    /\ settles = <<>>
    /\ timers = 0
    /\ cancelled = 0
    /\ micro = [k \in Kinds |-> 0]
    /\ spawnQ = <<>>
    /\ starts = 0
    /\ calls = 0
    /\ respawns = 0
    /\ everReady = FALSE
    /\ errSinceStart = FALSE
    /\ callerTurn = FALSE
    /\ lastOp = [op |-> "new", t |-> 0, settled |-> {}, log |-> 0,
                 err |-> FALSE, code |-> 0, again |-> FALSE, line |-> "",
                 threw |-> FALSE]

\* no continuation of a listTools()/callTool() is being followed
NoRet == [method |-> "none"]

\* no option given
DefaultConfig ==
    [autoInjectContext |-> "unset", autoSuggestSkills |-> "unset",
     injectionGuardEnabled |-> "unset", injectionGuardMode |-> "unset",
     injectionGuardScanAgentPrompt |-> "unset",
     injectionGuardScanGetPrompt |-> "unset"]

\* the plugin after register(api), with configuration cfg
Registered(cfg) ==
    /\ pluginCfg = cfg
    /\ registered = <<>>
    /\ frames = <<>>
    /\ scanCache = <<>>
    /\ clock = 0
    /\ scanCalls = 0
    /\ svc = [pc |-> "idle", todo |-> <<>>, listed |-> <<>>,
              externalBridges |-> <<>>]

Init ==
    /\ Fresh
    /\ limit = [procs |-> MaxProcs, starts |-> MaxStarts, calls |-> MaxCalls]
    /\ ret = NoRet
    /\ Registered(DefaultConfig)

\* start() up to `await this.spawn()`
Start(outcome) ==
    /\ CallerCanRun
    /\ Len(procs) < limit.procs
    /\ starts < limit.starts
    /\ starts' = starts + 1
    /\ stopped' = FALSE
    /\ Spawn(outcome)
    /\ micro' = IF outcome = "nopipes" THEN micro
                ELSE AddMicro(micro, "initStart", 1)
    /\ spawnQ' = IF outcome = "nopipes" THEN spawnQ
                 ELSE Append(spawnQ, Len(procs) + 1)
    /\ errSinceStart' = FALSE
    /\ lastOp' = Op(IF outcome = "nopipes" THEN "startFailed" ELSE "start",
                    0, {}, 0, FALSE)
    /\ UNCHANGED <<pending, ready, retries, issued, settles, timers, calls,
                   respawns, everReady>>
    /\ UNCHANGED <<limit, cancelled, outer>>
    /\ CallerTurn

\* stop() with `this.stopped = !this.stopped`
StopToggles ==
    /\ CallerCanRun
    /\ stopped' = ~stopped
    /\ ready' = FALSE
    /\ RejectAll("stopped")
    /\ micro' = AddMicro(micro, "catch", Cardinality(OwnedBy("crash")))
    /\ rl' = 0
    /\ proc' = 0
    /\ procs' = [p \in DOMAIN procs |->
                    [procs[p] EXCEPT
                        !.rl = IF p = rl THEN "closed" ELSE @,
                        !.killed = IF p = proc /\ procs[p].st = "alive"
                                   THEN TRUE ELSE @]]
    /\ lastOp' = Op("stop", 0, Rejected("stopped"), 0, FALSE)
    /\ cancelled' = timers
    /\ UNCHANGED <<retries, issued, timers, spawnQ, starts, calls, respawns,
                   everReady, errSinceStart>>
    /\ UNCHANGED <<limit, outer>>
    /\ CallerTurn

\* stop()
Stop ==
    /\ CallerCanRun
    /\ stopped' = TRUE
    /\ ready' = FALSE
    /\ RejectAll("stopped")
    /\ micro' = AddMicro(micro, "catch", Cardinality(OwnedBy("crash")))
    /\ rl' = 0
    /\ proc' = 0
    /\ procs' = [p \in DOMAIN procs |->
                    [procs[p] EXCEPT
                        !.rl = IF p = rl THEN "closed" ELSE @,
                        !.killed = IF p = proc /\ procs[p].st = "alive"
                                   THEN TRUE ELSE @]]
    /\ lastOp' = Op("stop", 0, Rejected("stopped"), 0, FALSE)
    /\ cancelled' = timers
    /\ UNCHANGED <<retries, issued, timers, spawnQ, starts, calls, respawns,
                   everReady, errSinceStart>>
    /\ UNCHANGED <<limit, outer>>
    /\ CallerTurn

\* request(method, params) called by run o on behalf of owner.  The entry
\* stands for the {resolve, reject} pair of the promise: who awaits it and
\* with which argument it was called; proc is the child the request line
\* was written to; spawned is the child that the start() awaiting it had
\* spawned (0: it is not awaited by a start()).
Request(o, owner, arg, spawned) ==
    LET entry == [owner |-> owner, arg |-> arg, proc |-> proc,
                  spawned |-> spawned]
        id == issued + 1
    IN  IF Writable
        THEN /\ issued' = id
             /\ pending' = (id :> entry) @@ pending
             /\ settles' = Append(settles, 0)
             /\ lastOp' = Op(o, id, {}, 0, FALSE)
        ELSE /\ lastOp' = Op(o, 0, {Settlement(0, entry, "notRunning", 0, 0)},
                             0, FALSE)
             /\ UNCHANGED <<issued, pending, settles>>

\* a listTools() that keeps the first answer: once some call was made it
\* sends nothing
ListToolsCached ==
    /\ CallerCanRun
    /\ calls < limit.calls
    /\ calls' = calls + 1
    /\ IF calls = 0
       THEN Request("listTools", "call", calls + 1, 0)
       ELSE /\ lastOp' = Op("listTools", 0, {}, 0, FALSE)
            /\ UNCHANGED <<issued, pending, settles>>
    /\ UNCHANGED <<proc, rl, ready, retries, stopped, procs, timers, micro,
                   spawnQ, starts, respawns, everReady, errSinceStart>>
    /\ UNCHANGED <<limit, cancelled, outer>>
    /\ CallerTurn

\* listTools() up to `await this.request("tools/list", {})`
ListTools ==
    /\ CallerCanRun
    /\ calls < limit.calls
    /\ calls' = calls + 1
    /\ Request("listTools", "call", calls + 1, 0)
    /\ UNCHANGED <<proc, rl, ready, retries, stopped, procs, timers, micro,
                   spawnQ, starts, respawns, everReady, errSinceStart>>
    /\ UNCHANGED <<limit, cancelled, outer>>
    /\ CallerTurn

\* callTool(name, args) up to `await this.request("tools/call", ...)`
CallTool ==
    /\ CallerCanRun
    /\ calls < limit.calls
    /\ calls' = calls + 1
    /\ Request("callTool", "call", calls + 1, 0)
    /\ UNCHANGED <<proc, rl, ready, retries, stopped, procs, timers, micro,
                   spawnQ, starts, respawns, everReady, errSinceStart>>
    /\ UNCHANGED <<limit, cancelled, outer>>
    /\ CallerTurn

\* initialize() from its start to `await this.request("initialize", ...)`,
\* run as the continuation of `await this.spawn()`; k is the awaiting
\* function: "initStart" for start(), "initCrash" for handleCrash().
Initialize(k) ==
    /\ micro[k] > 0
    /\ IF k = "initStart"
       THEN /\ Request("initialize", "start", 0, Head(spawnQ))
            /\ spawnQ' = Tail(spawnQ)
       ELSE /\ Request("initialize", "crash", 0, 0)
            /\ UNCHANGED spawnQ
    /\ micro' = IF k = "initCrash" /\ ~Writable
                THEN AddMicro(AddMicro(micro, k, -1), "catch", 1)
                ELSE AddMicro(micro, k, -1)
    /\ UNCHANGED <<proc, rl, ready, retries, stopped, procs, timers, starts,
                   calls, respawns, everReady, errSinceStart>>
    /\ UNCHANGED <<limit, cancelled, outer>>
    /\ CallerTurn

\* a notify() without the check of `stdin.writable`
NotifyUnguarded ==
    procs' = [p \in DOMAIN procs |->
                IF p = proc THEN [procs[p] EXCEPT !.notified = TRUE]
                ELSE procs[p]]

\* notify("notifications/initialized", {})
Notify ==
    procs' = IF Writable THEN [procs EXCEPT ![proc].notified = TRUE]
             ELSE procs

\* initialize() after its request resolved, without `this.retries = 0`
InitializeDoneKeepsRetries(k) ==
    /\ micro[k] > 0
    /\ micro' = AddMicro(micro, k, -1)
    /\ Notify
    /\ ready' = TRUE
    /\ retries' = retries
    /\ respawns' = 0
    /\ everReady' = TRUE
    /\ lastOp' = Op(k, 0, {}, 0, FALSE)
    /\ UNCHANGED <<proc, rl, pending, stopped, issued, settles, timers,
                   spawnQ, starts, calls, errSinceStart>>
    /\ UNCHANGED <<limit, cancelled, outer>>
    /\ CallerTurn

\* initialize() after its request resolved: notify, ready, retries, emit;
\* k is "readyStart" (then start() resolves) or "readyCrash".
InitializeDone(k) ==
    /\ micro[k] > 0
    /\ micro' = AddMicro(micro, k, -1)
    /\ Notify
    /\ ready' = TRUE
    /\ retries' = 0
    /\ respawns' = 0
    /\ everReady' = TRUE
    /\ lastOp' = Op(k, 0, {}, 0, FALSE)
    /\ UNCHANGED <<proc, rl, pending, stopped, issued, settles, timers,
                   spawnQ, starts, calls, errSinceStart>>
    /\ UNCHANGED <<limit, cancelled, outer>>
    /\ CallerTurn

\* The lines child p can write to its stdout.
\*   kind "garbage": JSON.parse throws;
\*   kind "noid": a JSON value whose id is undefined or falsy: an object
\*   without id member, a number, a string, a boolean, an array;
\*   kind "null": the JSON value null;
\*   kind "response": id is a token, err tells whether the line has an
\*   error member.  A child only knows the tokens written to its stdin; it
\*   answers a pending one, or repeats a token that is no longer pending.
Lines(p) ==
    {[kind |-> "garbage", id |-> 0, err |-> FALSE],
     [kind |-> "noid", id |-> 0, err |-> FALSE],
     [kind |-> "null", id |-> 0, err |-> FALSE]}
    \cup {[kind |-> "response", id |-> t, err |-> e] :
            t \in {u \in DOMAIN pending : pending[u].proc = p},
            e \in BOOLEAN}
    \cup {[kind |-> "response", id |-> t, err |-> FALSE] :
            t \in (1..issued) \ DOMAIN pending}

\* the child answers the request it read under that id
Payload(line) == pending[line.id].arg

\* the entry that was registered first, whatever the id of the line
LookupOldest(line) ==
    CHOOSE t \in DOMAIN pending : \A u \in DOMAIN pending : t <= u

\* the entry handleLine settles for a line: this.pending.get(id)
Lookup(line) == line.id

\* handleLine without `this.pending.delete(id)`
DeleteNothing(id) == pending

\* this.pending.delete(id)
Delete(id) == [u \in DOMAIN pending \ {id} |-> pending[u]]

HandleLine(p, line) ==
    /\ Idle
    /\ procs[p].st = "alive"
    /\ procs[p].rl = "open"
    /\ IF line.kind = "response" /\ line.id \in DOMAIN pending
       THEN LET t == Lookup(line)
                e == pending[t]
            IN
            /\ pending' = Delete(line.id)
            /\ procs' = IF e.owner # "call" /\ ~line.err
                        THEN [procs EXCEPT ![e.proc].hs = TRUE]
                        ELSE procs
            /\ settles' = [settles EXCEPT ![t] = @ + 1]
            /\ lastOp' = [Op("line", 0,
                             {Settlement(t, e, IF line.err THEN "rpc"
                                               ELSE "result", line.id,
                                         Payload(line))},
                             0, FALSE) EXCEPT !.line = line.kind]
            /\ micro' =
                 IF e.owner = "call" THEN micro
                 ELSE IF line.err
                      THEN (IF e.owner = "crash"
                            THEN AddMicro(micro, "catch", 1) ELSE micro)
                      ELSE AddMicro(micro,
                                    IF e.owner = "start"
                                    THEN "readyStart" ELSE "readyCrash", 1)
       ELSE \* `msg.id` of null is a TypeError, thrown out of the listener
            /\ lastOp' = [Op("line", 0, {}, 0, FALSE)
                            EXCEPT !.line = line.kind,
                                   !.threw = (line.kind = "null")]
            /\ UNCHANGED <<pending, settles, micro, procs>>
    /\ UNCHANGED <<proc, rl, ready, retries, stopped, issued, timers,
                   spawnQ, starts, calls, respawns, everReady,
                   errSinceStart>>
    /\ UNCHANGED <<limit, cancelled, outer>>
    /\ CallerTurn

\* proc.on("exit", code => ...) of child p
ProcExit(p, code) ==
    /\ Idle
    /\ procs[p].st = "alive"
    /\ procs' = Dead(p)
    /\ IF ~stopped /\ code # 0
       THEN HandleCrash("exit", code, micro)
       ELSE /\ lastOp' = [Op("exit", 0, {}, 0, FALSE) EXCEPT !.code = code]
            /\ UNCHANGED <<pending, ready, retries, settles, timers, micro,
                           errSinceStart>>
    /\ UNCHANGED <<proc, rl, stopped, issued, spawnQ, starts, calls,
                   respawns, everReady>>
    /\ UNCHANGED <<limit, cancelled, outer>>
    /\ CallerTurn

\* proc.on("error", err => ...) of child p, emitted on the tick after a
\* failed spawn
ProcError(p) ==
    /\ procs[p].st = "failed"
    /\ procs' = Dead(p)
    /\ IF ~stopped
       THEN HandleCrash("error", 0, micro)
       ELSE /\ lastOp' = Op("error", 0, {}, 0, FALSE)
            /\ UNCHANGED <<pending, ready, retries, settles, timers, micro,
                           errSinceStart>>
    /\ UNCHANGED <<proc, rl, stopped, issued, spawnQ, starts, calls,
                   respawns, everReady>>
    /\ UNCHANGED <<limit, cancelled, outer>>
    /\ CallerTurn

\* handleCrash() after `await new Promise(r => setTimeout(r, 1000))`,
\* up to `await this.spawn()`
BackoffElapsed(outcome) ==
    /\ Idle
    /\ timers > 0
    /\ timers' = timers - 1
    /\ cancelled' = IF cancelled > 0 THEN cancelled - 1 ELSE 0
    /\ IF stopped
       THEN /\ outcome = "ok"
            /\ lastOp' = Op("backoffStopped", 0, {}, 0, FALSE)
            /\ UNCHANGED <<proc, rl, procs, micro, respawns>>
       ELSE /\ Len(procs) < limit.procs
            /\ Spawn(outcome)
            /\ micro' = AddMicro(micro, IF outcome = "nopipes" THEN "catch"
                                        ELSE "initCrash", 1)
            /\ respawns' = respawns + 1
            /\ lastOp' = Op("respawn", 0, {}, 0, FALSE)
    /\ UNCHANGED <<pending, ready, retries, stopped, issued, settles, spawnQ,
                   starts, calls, everReady, errSinceStart>>
    /\ UNCHANGED <<limit, outer>>
    /\ CallerTurn

\* handleCrash(): `catch (retryErr) { this.handleCrash(retryErr) }`
RetryCatch ==
    /\ micro["catch"] > 0
    /\ HandleCrash("catch", 0, AddMicro(micro, "catch", -1))
    /\ UNCHANGED <<proc, rl, stopped, procs, issued, spawnQ, starts, calls,
                   respawns, everReady>>
    /\ UNCHANGED <<limit, cancelled, outer>>
    /\ CallerTurn

Next ==
    \/ \E o \in SpawnOutcomes : Start(o)
    \/ Stop
    \/ ListTools
    \/ CallTool
    \/ \E k \in {"initStart", "initCrash"} : Initialize(k)
    \/ \E k \in {"readyStart", "readyCrash"} : InitializeDone(k)
    \/ \E p \in DOMAIN procs : \E line \in Lines(p) : HandleLine(p, line)
    \/ \E p \in DOMAIN procs : \E c \in ExitCodes : ProcExit(p, c)
    \/ \E p \in DOMAIN procs : ProcError(p)
    \/ \E o \in SpawnOutcomes : BackoffElapsed(o)
    \/ RetryCatch

Spec == Init /\ [][Next]_vars

\* The supervisor on its own: the bridge is started once and then left to
\* its children and timers; the caller neither stops it nor issues calls.
\* The children write nothing but responses to the requests they read, and
\* none is ended by a signal.
Answers(p) ==
    {line \in Lines(p) : line.kind = "response" /\ line.id \in DOMAIN pending}

StatusCodes == ExitCodes \ {NullCode}

InitSupervisor ==
    /\ Fresh
    /\ limit = [procs |-> MaxChildren, starts |-> 1, calls |-> 0]
    /\ ret = NoRet
    /\ Registered(DefaultConfig)

NextSupervisor ==
    \/ \E o \in SpawnOutcomes : Start(o)
    \/ \E k \in {"initStart", "initCrash"} : Initialize(k)
    \/ \E k \in {"readyStart", "readyCrash"} : InitializeDone(k)
    \/ \E p \in DOMAIN procs : \E line \in Answers(p) : HandleLine(p, line)
    \/ \E p \in DOMAIN procs : \E c \in StatusCodes : ProcExit(p, c)
    \/ \E p \in DOMAIN procs : ProcError(p)
    \/ \E o \in SpawnOutcomes : BackoffElapsed(o)
    \/ RetryCatch

SpecSupervisor == InitSupervisor /\ [][NextSupervisor]_vars

\* The bridge with its event loop running: the continuations queued behind
\* an await run, the deferred "error" of a failed spawn is emitted and the
\* back-off timers fire.  Nothing makes a child answer or exit, and nothing
\* makes the caller call.
InitLive ==
    /\ Fresh
    /\ limit = [procs |-> 2, starts |-> 1, calls |-> 1]
    /\ ret = NoRet
    /\ Registered(DefaultConfig)

EventLoop ==
    /\ WF_vars(\E k \in {"initStart", "initCrash"} : Initialize(k))
    /\ WF_vars(\E k \in {"readyStart", "readyCrash"} : InitializeDone(k))
    /\ WF_vars(RetryCatch)
    /\ WF_vars(\E p \in DOMAIN procs : ProcError(p))
    /\ WF_vars(\E o \in SpawnOutcomes : BackoffElapsed(o))

SpecLive == InitLive /\ [][Next]_vars /\ EventLoop

\* ------------------------------------------------------------------------
\* callTool(): the mapping of the result of `tools/call`, a pure function of
\* the value the request resolved with.

\* the texts a content block can carry
Texts == {"", "boom", "bang"}

\* content blocks `{ type: string; text?: string }`: text blocks, and a
\* block of another type that has no text member
Blocks == {[type |-> "text", text |-> s] : s \in Texts} \cup {[type |-> "image"]}

SeqsUpTo(S, n) == UNION {[1..k -> S] : k \in 0..n}

Contents == SeqsUpTo(Blocks, MaxBlocks)

\* `undefined`: the value of a response line without result member
Undefined == [undefined |-> TRUE]

\* the values a `tools/call` request can resolve with: undefined, or an
\* object whose members content and isError are each optional
CallResults ==
    {Undefined}
      \cup {[isError |-> b] : b \in BOOLEAN}
      \cup {[content |-> c] : c \in Contents}
      \cup {[isError |-> b, content |-> c] : b \in BOOLEAN, c \in Contents}

\* Array.prototype.join
RECURSIVE Join(_, _)
Join(strs, sep) ==
    IF strs = <<>> THEN ""
    ELSE IF Len(strs) = 1 THEN strs[1]
    ELSE strs[1] \o sep \o Join(Tail(strs), sep)

\* `c.text ?? ""`
TextOf(c) == IF "text" \in DOMAIN c THEN c.text ELSE ""

\* `result?.isError`
IsError(result) == "isError" \in DOMAIN result /\ result.isError

\* `result.content?.map((c) => c.text ?? "").join("\n") ?? "MCP tool error"`
ErrorText(result) ==
    IF "content" \in DOMAIN result
    THEN Join([i \in DOMAIN result.content |-> TextOf(result.content[i])],
              "\n")
    ELSE "MCP tool error"

\* what callTool() does with the value its request resolved with
CallToolOutcome(result) ==
    IF IsError(result)
    THEN [throws |-> TRUE, message |-> ErrorText(result)]
    ELSE [throws |-> FALSE, value |-> result]

\* a call whose request resolved with `result`, before its continuation
Resolved(m, result) == [method |-> m, result |-> result, done |-> FALSE]

\* the continuation of callTool() behind `await this.request(...)`
CallToolReturn ==
    /\ ret.method = "callTool"
    /\ ~ret.done
    /\ ret' = [method |-> "callTool", result |-> ret.result, done |-> TRUE,
               out |-> CallToolOutcome(ret.result)]
    /\ UNCHANGED <<inner, plugin>>

InitCallTool ==
    /\ Fresh
    /\ limit = [procs |-> 0, starts |-> 0, calls |-> 0]
    /\ ret \in {Resolved("callTool", r) : r \in CallResults}
    /\ Registered(DefaultConfig)

SpecCallTool == InitCallTool /\ [][CallToolReturn]_vars

\* ------------------------------------------------------------------------
\* listTools(): one bridge with one child, the caller calling listTools()
\* only, and the continuation of each call whose request was resolved.

\* the names of the tools a server advertises
ToolNames == {"get_prompt", "search_skills"}

\* McpToolDef
ToolDefs == {[name |-> n] : n \in ToolNames}

\* the values a `tools/list` request can resolve with: undefined, an object
\* without tools member, an object with a tools array
ListResults ==
    {Undefined, [nextCursor |-> "c"]}
      \cup {[tools |-> ts] : ts \in SeqsUpTo(ToolDefs, MaxTools)}

\* `result?.tools ?? []`
ListToolsOutcome(result) ==
    IF "tools" \in DOMAIN result THEN result.tools ELSE <<>>

\* The continuation of listTools() behind `await this.request(...)`, run
\* right after the handleLine that resolved its request: t is the token of
\* the request, arg the call it was made by, of the request whose response
\* line carried the result.
ListToolsReturn(result) ==
    /\ lastOp.op = "line"
    /\ \E s \in lastOp.settled :
         /\ s.owner = "call"
         /\ s.how = "result"
         /\ IF ret = NoRet THEN TRUE ELSE ret.t # s.t
         /\ ret' = [method |-> "listTools", t |-> s.t, arg |-> s.arg,
                    of |-> s.value, result |-> result, done |-> TRUE,
                    out |-> ListToolsOutcome(result)]
    /\ UNCHANGED <<inner, plugin>>

InitListTools ==
    /\ Fresh
    /\ limit = [procs |-> 1, starts |-> 1, calls |-> MaxLists]
    /\ ret = NoRet
    /\ Registered(DefaultConfig)

NextListTools ==
    \/ Start("ok")
    \/ Stop
    \/ ListTools
    \/ Initialize("initStart")
    \/ InitializeDone("readyStart")
    \/ \E p \in DOMAIN procs : \E line \in Lines(p) : HandleLine(p, line)
    \/ \E result \in ListResults : ListToolsReturn(result)

SpecListTools == InitListTools /\ [][NextListTools]_vars

\* ------------------------------------------------------------------------
\* The plugin (src/src/index.ts) once register(api) has run: the host starts
\* the service, fires before_agent_start and executes registered tools.
\* The bridges are the plugin's environment here: a call of one of their
\* methods is awaited and the environment settles it, with a result or a
\* rejection.

\* ---- api.pluginConfig ----
\* an option that is a boolean: not given, true, false
Options == {"unset", "true", "false"}

\* injectionGuardMode
Modes == {"unset", "warn", "block"}

PluginConfigs ==
    [autoInjectContext : Options, autoSuggestSkills : Options,
     injectionGuardEnabled : Options, injectionGuardMode : Modes,
     injectionGuardScanAgentPrompt : Options,
     injectionGuardScanGetPrompt : Options]

autoInject == pluginCfg.autoInjectContext # "false"

autoSuggest == pluginCfg.autoSuggestSkills # "false"

\* clampInt(undefined, 3, 1, 10)
suggestLimit == 3

\* clampInt(undefined, 12, 0, 500)
minPromptLen == 12

injectionGuardEnabled == pluginCfg.injectionGuardEnabled = "true"

injectionGuardMode ==
    IF pluginCfg.injectionGuardMode = "block" THEN "block" ELSE "warn"

injectionGuardScanAgentPrompt ==
    IF injectionGuardEnabled
    THEN pluginCfg.injectionGuardScanAgentPrompt # "false"
    ELSE FALSE

injectionGuardScanGetPrompt ==
    IF injectionGuardEnabled
    THEN pluginCfg.injectionGuardScanGetPrompt # "false"
    ELSE FALSE

\* `sageBridge`: register() assigns it before it registers the service and
\* the hook, and nothing sets it back to null
sageBridge == TRUE

SCAN_CACHE_LIMIT == 256

\* 5 * 60_000 ms; the clock of the model counts minutes
SCAN_CACHE_TTL == 5

\* first line of the context block
SAGE_CONTEXT == "## Sage MCP Tools Available"

\* ---- values ----
Null == [null |-> TRUE]

\* `{}`
EmptyObject == [empty |-> TRUE]

\* a tool result whose content is one text block
Raw(text) == [content |-> <<[type |-> "text", text |-> text]>>]

\* a bridge call that fails: callTool()/listTools()/start() rejects, or
\* callTool() throws for a result flagged isError
Rejects == [rejects |-> TRUE, message |-> "MCP process not running"]

\* JSON.parse, on the texts the servers of the model answer with (written
\* without quotes); any other text makes it throw, which the callers turn
\* into undefined
JSONparse(text) ==
    CASE text = "{shouldBlock:true}" -> [shouldBlock |-> TRUE]
      [] text = "{shouldBlock:false}" -> [shouldBlock |-> FALSE]
      [] text = "{prompt:{content:do X}}" -> [prompt |-> [content |-> "do X"]]
      [] text = "{prompt:{key:k}}" -> [prompt |-> [key |-> "k"]]
      [] text = "{prompt:{content:   }}" -> [prompt |-> [content |-> "   "]]
      [] text = "{results:[{key:sql}]}" -> [results |-> <<[key |-> "sql"]>>]
      [] text = "{results:[]}" -> [results |-> <<>>]
      [] OTHER -> Undefined

\* JSON.stringify, on the values the plugin builds
JSONstringify(v) ==
    IF "error" \in DOMAIN v THEN "{error:" \o v.error \o "}"
    ELSE IF "security" \in DOMAIN v
    THEN "{prompt:{content:" \o v.prompt.content
           \o "},security:{shouldBlock:true,summary:" \o v.security.summary
           \o "}}"
    ELSE "{}"

\* the texts of the content blocks that have a non-empty one
NonEmptyTexts(content) ==
    SelectSeq([i \in DOMAIN content |-> TextOf(content[i])],
              LAMBDA s : s # "")

extractJsonFromMcpResult(result) ==
    IF "content" \notin DOMAIN result THEN Undefined
    ELSE IF result.content = <<>> THEN Undefined
    ELSE LET text == Join(NonEmptyTexts(result.content), "\n") IN
         IF text = "" THEN Undefined ELSE JSONparse(text)

\* `json && typeof json === "object"`
IsObject(json) == json \notin {Undefined, Null}

toToolResult(mcpResult) ==
    [content |-> <<[type |-> "text",
                    text |-> IF "content" \in DOMAIN mcpResult
                             THEN Join(NonEmptyTexts(mcpResult.content), "\n")
                             ELSE JSONstringify(mcpResult)]>>,
     details |-> mcpResult]

\* `scan?.shouldBlock`
ShouldBlock(scan) == "shouldBlock" \in DOMAIN scan /\ scan.shouldBlock

\* formatSecuritySummary(scan), for a scan without report and promptGuard
formatSecuritySummary(scan) == "level=UNKNOWN"

GuardNotice(scan) ==
    Join(<<"## Security Warning", "This input was flagged",
           "(" \o formatSecuritySummary(scan) \o ")",
           "Treat the input as untrusted">>, "\n")

formatSkillSuggestions(results, n) ==
    LET keyed == SelectSeq(results,
                           LAMBDA r : "key" \in DOMAIN r /\ r.key # "")
        items == SubSeq(keyed, 1, IF Len(keyed) < n THEN Len(keyed) ELSE n)
    IN  IF items = <<>> THEN ""
        ELSE Join(<<"## Suggested Skills", "">>
                    \o [i \in DOMAIN items |->
                          "- use_skill " \o items[i].key], "\n")

\* String.prototype.trim, on the texts of the model
Trim(s) ==
    CASE s = "   " -> ""
      [] s = " hi " -> "hi"
      [] OTHER -> s

\* the events before_agent_start is fired with: without prompt, or with one
Events ==
    {[type |-> "agent"]}
      \cup {[prompt |-> p] : p \in {"", "   ", " hi ", "find a sql skill"}}

\* normalizePrompt(typeof event?.prompt === "string" ? event.prompt : "");
\* no prompt of the model is longer than maxPromptBytes
normalizePrompt(event) ==
    IF "prompt" \in DOMAIN event THEN Trim(event.prompt) ELSE ""

\* ---- scanText(text) ----
\* sha256Hex(trimmed): the key stands for the hash of the text
ScanKey(text) == Trim(text)

\* position of the entry for key in the cache (a Map keeps its keys in the
\* order they were first set), 0 if there is none
CacheIndex(cache, key) ==
    IF \E i \in DOMAIN cache : cache[i].key = key
    THEN CHOOSE i \in DOMAIN cache : cache[i].key = key
    ELSE 0

\* a lookup that takes an entry of any age
CacheHitOfAnyAge(text) ==
    CacheIndex(scanCache, ScanKey(text)) # 0

\* `cached && now - cached.ts < SCAN_CACHE_TTL_MS`
CacheHit(text) ==
    LET i == CacheIndex(scanCache, ScanKey(text)) IN
    i # 0 /\ clock - scanCache[i].ts < SCAN_CACHE_TTL

\* scanText returns without calling the bridge
ScanReturnsAtOnce(text) == ~sageBridge \/ Trim(text) = "" \/ CacheHit(text)

ScanAtOnce(text) ==
    IF ~sageBridge \/ Trim(text) = "" THEN Null
    ELSE scanCache[CacheIndex(scanCache, ScanKey(text))].scan

\* a cache that sets without evicting
CachePutNoEvict(key, ts, scan) ==
    LET i == CacheIndex(scanCache, key)
        entry == [key |-> key, ts |-> ts, scan |-> scan]
    IN  IF i = 0 THEN Append(scanCache, entry)
        ELSE [scanCache EXCEPT ![i] = entry]

\* the bounded cache: evict the first key when full, then set
CachePut(key, ts, scan) ==
    LET kept == IF Len(scanCache) >= SCAN_CACHE_LIMIT THEN Tail(scanCache)
                ELSE scanCache
        i == CacheIndex(kept, key)
        entry == [key |-> key, ts |-> ts, scan |-> scan]
    IN  IF i = 0 THEN Append(kept, entry) ELSE [kept EXCEPT ![i] = entry]

\* ---- runs of the hook and of execute callbacks ----
\* One frame per invocation.  pc is the await it is suspended at: "scan"
\* (the security_scan_text call of scanText), "search" (the search_skills
\* call), "call" (the callTool of a registered tool), or "done"; out is what
\* it returned.  prompt and notice are locals of the hook; tool (the index
\* in registered), args (the params it was called with), via (the callTool
\* it dispatched) and raw (the result of that call) are locals of execute;
\* key and now are locals of scanText.  History: scan is what scanText
\* returned to the run (Null: it was not called, or returned null), failed
\* whether a bridge call of the run was rejected, text the text scanText
\* was called with ("": it was not called; its callers pass no empty text).
Frame(kind, pc) ==
    [kind |-> kind, pc |-> pc, prompt |-> "", notice |-> "", tool |-> 0,
     args |-> "", via |-> Null, raw |-> Null, key |-> "", now |-> 0,
     out |-> Null, scan |-> Null, failed |-> FALSE, text |-> ""]

Done(f, out) == [f EXCEPT !.pc = "done", !.out = out]

\* the end of the hook: the parts, joined
HookReturn(f, notice, suggestBlock) ==
    LET parts == (IF autoInject THEN <<SAGE_CONTEXT>> ELSE <<>>)
                   \o (IF notice # "" THEN <<notice>> ELSE <<>>)
                   \o (IF suggestBlock # "" THEN <<suggestBlock>> ELSE <<>>)
    IN  Done(f, IF parts = <<>> THEN Undefined
                ELSE [prependContext |-> Join(parts, "\n\n")])

\* the hook from the result of the scan to its next await or its end
HookAfterScan(f, scan) ==
    LET notice == IF ShouldBlock(scan) THEN GuardNotice(scan) ELSE "" IN
    IF f.prompt = "" \/ Len(f.prompt) < minPromptLen
    THEN HookReturn(f, notice, "")
    ELSE IF autoSuggest /\ sageBridge
    THEN [f EXCEPT !.pc = "search", !.notice = notice]
    ELSE HookReturn(f, notice, "")

\* an execute that attaches the warning in block mode too
ExecuteAfterScanWarnsOnly(f, scan) ==
    LET json == extractJsonFromMcpResult(f.raw)
        summary == formatSecuritySummary(scan)
    IN
    IF ShouldBlock(scan)
    THEN Done(f, [content |->
                    <<[type |-> "text",
                       text |-> JSONstringify(
                                  [prompt |-> json.prompt,
                                   security |-> [shouldBlock |-> TRUE,
                                                 summary |-> summary]])]>>,
                  details |-> f.raw])
    ELSE Done(f, toToolResult(f.raw))

\* execute of a get_prompt tool from the result of the scan to its end
ExecuteAfterScan(f, scan) ==
    LET json == extractJsonFromMcpResult(f.raw)
        summary == formatSecuritySummary(scan)
    IN
    IF ShouldBlock(scan)
    THEN IF registered[f.tool].opts.injectionGuardMode = "block"
         THEN Done(f, toToolResult(
                        [error |-> "Blocked: prompt content flagged by security scanning ("
                                     \o summary \o ")"]))
         ELSE Done(f, [content |->
                         <<[type |-> "text",
                            text |-> JSONstringify(
                                       [prompt |-> json.prompt,
                                        security |-> [shouldBlock |-> TRUE,
                                                      summary |-> summary]])]>>,
                       details |-> f.raw])
    ELSE Done(f, toToolResult(f.raw))

AfterScan(f, scan) ==
    LET g == [f EXCEPT !.scan = scan] IN
    IF f.kind = "hook" THEN HookAfterScan(g, scan)
    ELSE ExecuteAfterScan(g, scan)

\* `await scanText(text)` in frame f: up to the await of the bridge call,
\* or through to the next await of its caller when scanText returns at once
Scan(f, text) ==
    IF ScanReturnsAtOnce(text)
    THEN AfterScan([f EXCEPT !.text = text], ScanAtOnce(text))
    ELSE [f EXCEPT !.pc = "scan", !.key = ScanKey(text), !.now = clock,
                   !.text = text]

\* api.on("before_agent_start", ...): up to its first await
BeforeAgentStart(event) ==
    LET f == [Frame("hook", "start") EXCEPT !.prompt = normalizePrompt(event)]
        g == IF injectionGuardScanAgentPrompt /\ f.prompt # ""
             THEN Scan(f, f.prompt)
             ELSE HookAfterScan(f, Null)
    IN
    /\ Len(frames) < MaxRuns
    /\ frames' = Append(frames, g)
    /\ scanCalls' = scanCalls + (IF g.pc = "scan" THEN 1 ELSE 0)
    /\ UNCHANGED <<pluginCfg, registered, scanCache, clock, svc>>
    /\ UNCHANGED <<inner, ret>>

\* what callTool("security_scan_text", ...) can settle with
ScanReplies ==
    {Rejects, Raw("{shouldBlock:true}"), Raw("{shouldBlock:false}"),
     Raw("oops")}

\* scanText behind `await sageBridge.callTool("security_scan_text", ...)`,
\* and its caller up to the next await
ScanSettled(i, reply) ==
    LET f == [frames[i] EXCEPT !.failed = @ \/ reply = Rejects]
        json == extractJsonFromMcpResult(reply)
        scan == IF reply = Rejects THEN Null
                ELSE IF IsObject(json) THEN json ELSE EmptyObject
    IN
    /\ frames[i].pc = "scan"
    /\ scanCache' = IF reply = Rejects THEN scanCache
                    ELSE CachePut(f.key, f.now, scan)
    /\ frames' = [frames EXCEPT ![i] = AfterScan(f, scan)]
    /\ UNCHANGED <<pluginCfg, registered, clock, scanCalls, svc>>
    /\ UNCHANGED <<inner, ret>>

\* what callTool("search_skills", ...) can settle with
SearchReplies ==
    {Rejects, Raw("{results:[{key:sql}]}"), Raw("{results:[]}"), Raw("oops")}

\* the hook without the try around the search: a rejected call rejects
\* the hook
SearchSettledNoCatch(i, reply) ==
    LET f == [frames[i] EXCEPT !.failed = @ \/ reply = Rejects]
        json == extractJsonFromMcpResult(reply)
        results == IF "results" \in DOMAIN json THEN json.results ELSE <<>>
    IN
    /\ frames[i].pc = "search"
    /\ frames' = [frames EXCEPT ![i] =
                    IF reply = Rejects THEN Done(f, Rejects)
                    ELSE HookReturn(f, f.notice,
                                    formatSkillSuggestions(results,
                                                           suggestLimit))]
    /\ UNCHANGED <<pluginCfg, registered, scanCache, clock, scanCalls, svc>>
    /\ UNCHANGED <<inner, ret>>

\* the hook behind `await sageBridge.callTool("search_skills", ...)`
SearchSettled(i, reply) ==
    LET f == [frames[i] EXCEPT !.failed = @ \/ reply = Rejects]
        json == extractJsonFromMcpResult(reply)
        results == IF "results" \in DOMAIN json THEN json.results ELSE <<>>
    IN
    /\ frames[i].pc = "search"
    /\ frames' = [frames EXCEPT ![i] =
                    HookReturn(f, f.notice,
                               IF reply = Rejects THEN ""
                               ELSE formatSkillSuggestions(results,
                                                           suggestLimit))]
    /\ UNCHANGED <<pluginCfg, registered, scanCache, clock, scanCalls, svc>>
    /\ UNCHANGED <<inner, ret>>

\* the params a host calls a tool with
Params == {"p1", "p2"}

\* execute(_toolCallId, params) of registered tool n, up to
\* `await bridge.callTool(tool.name, params)`
Execute(n, params) ==
    /\ Len(frames) < MaxRuns
    /\ n \in DOMAIN registered
    /\ frames' = Append(frames,
                   [Frame("execute", "call") EXCEPT
                      !.tool = n,
                      !.args = params,
                      !.via = [bridge |-> registered[n].bridge,
                               name |-> registered[n].tool.name,
                               arguments |-> params]])
    /\ UNCHANGED <<pluginCfg, registered, scanCache, clock, scanCalls, svc>>
    /\ UNCHANGED <<inner, ret>>

\* what the callTool of a registered tool can settle with
ToolReplies ==
    {Rejects, Raw("{prompt:{content:do X}}"), Raw("{prompt:{key:k}}"),
     Raw("oops")}

\* `json?.prompt?.content`, when it is a string
PromptContent(json) ==
    IF "prompt" \in DOMAIN json
    THEN (IF "content" \in DOMAIN json.prompt THEN json.prompt.content
          ELSE "")
    ELSE ""

\* an execute without its try/catch: the rejection of callTool is thrown
\* on to the host
CallSettledNoCatch(i, reply) ==
    LET f == [frames[i] EXCEPT !.raw = reply,
                               !.failed = @ \/ reply = Rejects]
        t == registered[f.tool]
        content == PromptContent(extractJsonFromMcpResult(reply))
        g == IF reply = Rejects
             THEN Done(f, [throws |-> TRUE, message |-> reply.message])
             ELSE IF /\ t.opts.injectionGuardScanGetPrompt
                     /\ t.tool.name = "get_prompt"
                     /\ t.prefix = "sage"
                     /\ content # ""
             THEN Scan(f, content)
             ELSE Done(f, toToolResult(reply))
    IN
    /\ frames[i].pc = "call"
    /\ frames' = [frames EXCEPT ![i] = g]
    /\ scanCalls' = scanCalls + (IF g.pc = "scan" THEN 1 ELSE 0)
    /\ UNCHANGED <<pluginCfg, registered, scanCache, clock, svc>>
    /\ UNCHANGED <<inner, ret>>

\* execute behind `await bridge.callTool(tool.name, params)`
CallSettled(i, reply) ==
    LET f == [frames[i] EXCEPT !.raw = reply,
                               !.failed = @ \/ reply = Rejects]
        t == registered[f.tool]
        content == PromptContent(extractJsonFromMcpResult(reply))
        g == IF reply = Rejects
             THEN Done(f, toToolResult([error |-> reply.message]))
             ELSE IF /\ t.opts.injectionGuardScanGetPrompt
                     /\ t.tool.name = "get_prompt"
                     /\ t.prefix = "sage"
                     /\ content # ""
             THEN Scan(f, content)
             ELSE Done(f, toToolResult(reply))
    IN
    /\ frames[i].pc = "call"
    /\ frames' = [frames EXCEPT ![i] = g]
    /\ scanCalls' = scanCalls + (IF g.pc = "scan" THEN 1 ELSE 0)
    /\ UNCHANGED <<pluginCfg, registered, scanCache, clock, svc>>
    /\ UNCHANGED <<inner, ret>>

\* a minute passes
Tick ==
    /\ clock < MaxClock
    /\ clock' = clock + 1
    /\ UNCHANGED <<pluginCfg, registered, frames, scanCache, scanCalls, svc>>
    /\ UNCHANGED <<inner, ret>>

\* ---- the service ----
\* svc: pc is the await start() is suspended at ("idle": not called, "done":
\* returned; "stopped": the service's stop() has returned), todo the external
\* servers still to start, externalBridges the keys of the map of that
\* name; history: listed is what the listTools() calls returned, with the
\* bridge that answered.
\* a registerMcpTool whose execute calls the bridge with the name the host
\* knows the tool by
registerMcpToolByHostName(prefix, bridge, tool, opts) ==
    [name |-> prefix \o "_" \o tool.name, prefix |-> prefix,
     bridge |-> bridge, tool |-> [name |-> prefix \o "_" \o tool.name],
     opts |-> opts]

\* registerMcpTool(api, prefix, bridge, tool, opts): the tool handed to
\* api.registerTool; bridge, tool and opts are what its execute closes over
registerMcpTool(prefix, bridge, tool, opts) ==
    [name |-> prefix \o "_" \o tool.name, prefix |-> prefix,
     bridge |-> bridge, tool |-> tool, opts |-> opts]

\* the registrations of one `for (const tool of tools)` loop
RegisterAll(prefix, bridge, tools, opts) ==
    registered \o [i \in DOMAIN tools |->
                     registerMcpTool(prefix, bridge, tools[i], opts)]

\* ids of the servers of mcp-servers.toml, as the segments between dashes
ServerIds == {<<"my", "server">>}

\* loadCustomServers()
CustomServers == SeqsUpTo(ServerIds, 1)

\* `server.id.replace(/-/g, "_")`
ServerPrefix(id) == Join(id, "_")

\* the service's start(), up to `await sageBridge.start()`
ServiceStart ==
    /\ svc.pc = "idle"
    /\ svc' = [svc EXCEPT !.pc = "mainStart"]
    /\ UNCHANGED <<pluginCfg, registered, frames, scanCache, clock, scanCalls>>
    /\ UNCHANGED <<inner, ret>>

\* the service after the try block of the main bridge: loadCustomServers()
\* and the loop up to the first `await bridge.start()`
ToExternal(servers, listed) ==
    [pc |-> IF servers = <<>> THEN "done" ELSE "extStart", todo |-> servers,
     listed |-> listed, externalBridges |-> svc.externalBridges]

\* behind `await sageBridge.start()`: to `await sageBridge.listTools()`, or
\* through the catch
MainStartSettled(ok, servers) ==
    /\ svc.pc = "mainStart"
    /\ svc' = IF ok THEN [svc EXCEPT !.pc = "mainList"]
              ELSE ToExternal(servers, svc.listed)
    /\ UNCHANGED <<pluginCfg, registered, frames, scanCache, clock, scanCalls>>
    /\ UNCHANGED <<inner, ret>>

\* what listTools() can settle with
ListReplies == {Rejects} \cup {[tools |-> ts] : ts \in SeqsUpTo(ToolDefs, MaxTools)}

\* behind `await sageBridge.listTools()`: the registration loop
MainListSettled(reply, servers) ==
    /\ svc.pc = "mainList"
    /\ registered' =
         IF reply = Rejects THEN registered
         ELSE RegisterAll("sage", "sage", reply.tools,
                          [injectionGuardScanGetPrompt |->
                             injectionGuardScanGetPrompt,
                           injectionGuardMode |-> injectionGuardMode])
    /\ svc' = ToExternal(servers,
                         IF reply = Rejects THEN svc.listed
                         ELSE Append(svc.listed, [bridge |-> "sage",
                                                  tools |-> reply.tools]))
    /\ UNCHANGED <<pluginCfg, frames, scanCache, clock, scanCalls>>
    /\ UNCHANGED <<inner, ret>>

\* the loop over the external servers after one of them is dealt with
NextExternal(listed) == ToExternal(Tail(svc.todo), listed)

\* behind `await bridge.start()` of the external server at hand
ExternalStartSettled(ok) ==
    /\ svc.pc = "extStart"
    /\ svc' = IF ok
              THEN [svc EXCEPT !.pc = "extList",
                               !.externalBridges = Append(@, Head(svc.todo))]
              ELSE NextExternal(svc.listed)
    /\ UNCHANGED <<pluginCfg, registered, frames, scanCache, clock, scanCalls>>
    /\ UNCHANGED <<inner, ret>>

\* behind `await bridge.listTools()` of the external server at hand
ExternalListSettled(reply) ==
    LET id == Head(svc.todo) IN
    /\ svc.pc = "extList"
    /\ registered' =
         IF reply = Rejects THEN registered
         ELSE RegisterAll(ServerPrefix(id), Join(id, "-"), reply.tools,
                          [injectionGuardScanGetPrompt |-> FALSE,
                           injectionGuardMode |-> "warn"])
    /\ svc' = NextExternal(IF reply = Rejects THEN svc.listed
                           ELSE Append(svc.listed, [bridge |-> Join(id, "-"),
                                                    tools |-> reply.tools]))
    /\ UNCHANGED <<pluginCfg, frames, scanCache, clock, scanCalls>>
    /\ UNCHANGED <<inner, ret>>

\* ---------------------------------------------------------------------
\* Message channel

\* ---- the hook, under every configuration of the options it reads ----
HookConfigs ==
    {c \in PluginConfigs : /\ c.injectionGuardMode = "unset"
                           /\ c.injectionGuardScanGetPrompt = "unset"}

InitHook ==
    /\ Fresh
    /\ limit = [procs |-> 0, starts |-> 0, calls |-> 0]
    /\ ret = NoRet
    /\ \E c \in HookConfigs : Registered(c)

NextHook ==
    \/ \E event \in Events : BeforeAgentStart(event)
    \/ \E i \in DOMAIN frames : \E reply \in ScanReplies :
         ScanSettled(i, reply)
    \/ \E i \in DOMAIN frames : \E reply \in SearchReplies :
         SearchSettled(i, reply)

SpecHook == InitHook /\ [][NextHook]_vars

\* ---- the injection guard, under every configuration of its options ----
GuardConfigs ==
    {c \in PluginConfigs : /\ c.autoInjectContext = "unset"
                           /\ c.autoSuggestSkills = "false"}

\* the tools of the main server
SageTools == <<[name |-> "get_prompt"], [name |-> "search_skills"]>>

InitGuard ==
    /\ Fresh
    /\ limit = [procs |-> 0, starts |-> 0, calls |-> 0]
    /\ ret = NoRet
    /\ \E c \in GuardConfigs : Registered(c)

NextGuard ==
    \/ ServiceStart
    \/ MainStartSettled(TRUE, <<>>)
    \/ MainListSettled([tools |-> SageTools], <<>>)
    \/ \E event \in Events : BeforeAgentStart(event)
    \/ \E n \in DOMAIN registered : \E params \in Params : Execute(n, params)
    \/ \E i \in DOMAIN frames : \E reply \in ToolReplies :
         CallSettled(i, reply)
    \/ \E i \in DOMAIN frames : \E reply \in ScanReplies :
         ScanSettled(i, reply)

SpecGuard == InitGuard /\ [][NextGuard]_vars

\* the descriptors the listTools() calls of the service returned, each with
\* the bridge that returned it, in the order they were returned
RECURSIVE Advertised(_)
Advertised(listed) ==
    IF listed = <<>> THEN <<>>
    ELSE [i \in DOMAIN Head(listed).tools |->
            [bridge |-> Head(listed).bridge, tool |-> Head(listed).tools[i]]]
           \o Advertised(Tail(listed))

\* ---- the service and the tools it registers, default configuration ----
InitRegistration ==
    /\ Fresh
    /\ limit = [procs |-> 0, starts |-> 0, calls |-> 0]
    /\ ret = NoRet
    /\ Registered(DefaultConfig)

NextRegistration ==
    \/ ServiceStart
    \/ \E ok \in BOOLEAN : \E servers \in CustomServers :
         MainStartSettled(ok, servers)
    \/ \E reply \in ListReplies : \E servers \in CustomServers :
         MainListSettled(reply, servers)
    \/ \E ok \in BOOLEAN : ExternalStartSettled(ok)
    \/ \E reply \in ListReplies : ExternalListSettled(reply)
    \/ \E n \in DOMAIN registered : \E params \in Params : Execute(n, params)
    \/ \E i \in DOMAIN frames : \E reply \in ToolReplies :
         CallSettled(i, reply)

SpecRegistration == InitRegistration /\ [][NextRegistration]_vars

\* ---- the scan cache ----
\* The guard is enabled, so that the hook scans the prompt and execute the
\* content fetched by sage_get_prompt; minutes pass; the plugin has run for
\* a while: the cache holds the scans of n other texts.
CacheConfig ==
    [DefaultConfig EXCEPT !.injectionGuardEnabled = "true",
                          !.autoSuggestSkills = "false"]

\* the cache after the scans of n different texts, none blocked
Warm(n) ==
    [i \in 1..n |-> [key |-> "k" \o ToString(i), ts |-> 0,
                     scan |-> EmptyObject]]

InitCache ==
    /\ Fresh
    /\ limit = [procs |-> 0, starts |-> 0, calls |-> 0]
    /\ ret = NoRet
    /\ pluginCfg = CacheConfig
    /\ registered = <<>>
    /\ frames = <<>>
    /\ scanCache \in {Warm(n) : n \in {0, SCAN_CACHE_LIMIT - 1, SCAN_CACHE_LIMIT}}
    /\ clock = 0
    /\ scanCalls = 0
    /\ svc = [pc |-> "idle", todo |-> <<>>, listed |-> <<>>,
              externalBridges |-> <<>>]

NextCache ==
    \/ ServiceStart
    \/ MainStartSettled(TRUE, <<>>)
    \/ MainListSettled([tools |-> <<[name |-> "get_prompt"]>>], <<>>)
    \/ BeforeAgentStart([prompt |-> " hi "])
    \/ \E n \in DOMAIN registered : Execute(n, "p1")
    \/ \E i \in DOMAIN frames :
         \E reply \in {Rejects, Raw("{prompt:{content:do X}}"),
                       Raw("{prompt:{content:   }}")} :
           CallSettled(i, reply)
    \/ \E i \in DOMAIN frames : \E reply \in ScanReplies :
         ScanSettled(i, reply)
    \/ Tick

SpecCache == InitCache /\ [][NextCache]_vars

\* ---- the service with the bridge of its external server ----
\* The bridge of the model is the one the service creates for its external
\* server; the main bridge is known by what its calls settle with.

\* the promise of the bridge.start() that the service awaits.  Its
\* initialize request, when one was written, is the first request of the
\* bridge; start() is rejected when spawn() rejected or the request was
\* rejected, and resolves in the continuation of the request's result.
StartOutcome ==
    IF starts = 0 \/ micro["initStart"] > 0 THEN "pending"
    ELSE IF issued = 0 THEN "rejected"
    ELSE IF settles[1] = 0 THEN "pending"
    ELSE IF ~procs[1].hs THEN "rejected"
    ELSE IF micro["readyStart"] > 0 THEN "pending"
    ELSE "resolved"

\* behind `await bridge.start()`: externalBridges.set and listTools(), or
\* the catch
ExternalStartReturns ==
    /\ StartOutcome # "pending"
    /\ ExternalStartSettled(StartOutcome = "resolved")

\* the service's stop() while externalBridges holds the bridge: up to
\* `await bridge.stop()`
ServiceStop ==
    /\ svc.pc = "done"
    /\ svc.externalBridges # <<>>
    /\ ~stopped
    /\ Stop

\* the rest of the service's stop(): externalBridges.clear(), the stop()
\* of the main bridge, return.  With an empty externalBridges this is all
\* of it.
ServiceStopReturns ==
    /\ svc.pc = "done"
    /\ svc.externalBridges = <<>> \/ stopped
    /\ svc' = [svc EXCEPT !.pc = "stopped", !.externalBridges = <<>>]
    /\ UNCHANGED <<pluginCfg, registered, frames, scanCache, clock, scanCalls>>
    /\ UNCHANGED <<inner, ret>>

\* a continuation of the service is queued: it runs before the event loop
\* delivers I/O or timers to the bridge
ServiceTurn ==
    \/ /\ svc.pc \in {"mainStart", "extStart"}
       /\ starts = 0 \/ StartOutcome # "pending"
    \/ svc.pc = "done" /\ svc.externalBridges # <<>> /\ stopped

InitService ==
    /\ Fresh
    /\ limit = [procs |-> 2, starts |-> 1, calls |-> 0]
    /\ ret = NoRet
    /\ Registered(DefaultConfig)

NextService ==
    \/ ServiceStart
    \/ \E ok \in BOOLEAN : \E servers \in CustomServers :
         MainStartSettled(ok, servers)
    \/ \E reply \in {Rejects, [tools |-> <<>>]} : \E servers \in CustomServers :
         MainListSettled(reply, servers)
    \/ \E o \in SpawnOutcomes : svc.pc = "extStart" /\ Start(o)
    \/ ExternalStartReturns
    \/ \E reply \in {Rejects, [tools |-> <<>>]} : ExternalListSettled(reply)
    \/ ServiceStop
    \/ ServiceStopReturns
    \/ /\ ~ServiceTurn
       /\ \/ \E k \in {"initStart", "initCrash"} : Initialize(k)
          \/ \E k \in {"readyStart", "readyCrash"} : InitializeDone(k)
          \/ \E p \in DOMAIN procs : \E line \in Answers(p) :
               HandleLine(p, line)
          \/ \E p \in DOMAIN procs : \E c \in ExitCodes : ProcExit(p, c)
          \/ \E p \in DOMAIN procs : ProcError(p)
          \/ \E o \in SpawnOutcomes : BackoffElapsed(o)
          \/ RetryCatch

SpecService == InitService /\ [][NextService]_vars

\* ---- the service with the main bridge ----
\* The bridge of the model is sageBridge; the bridges of the external
\* servers are known by what their calls settle with.  The event loop runs,
\* the service's continuations run, and the calls to the external bridges
\* settle.

\* behind `await sageBridge.start()`: listTools(), or the catch
MainStartReturns(servers) ==
    /\ StartOutcome # "pending"
    /\ MainStartSettled(StartOutcome = "resolved", servers)

InitStartup ==
    /\ Fresh
    /\ limit = [procs |-> 2, starts |-> 1, calls |-> 0]
    /\ ret = NoRet
    /\ Registered(DefaultConfig)

NextStartup ==
    \/ ServiceStart
    \/ \E o \in SpawnOutcomes : svc.pc = "mainStart" /\ Start(o)
    \/ \E servers \in CustomServers : MainStartReturns(servers)
    \/ \E reply \in {Rejects, [tools |-> <<>>]} : \E servers \in CustomServers :
         MainListSettled(reply, servers)
    \/ \E ok \in BOOLEAN : ExternalStartSettled(ok)
    \/ \E reply \in {Rejects, [tools |-> <<>>]} : ExternalListSettled(reply)
    \/ /\ ~ServiceTurn
       /\ \/ \E k \in {"initStart", "initCrash"} : Initialize(k)
          \/ \E k \in {"readyStart", "readyCrash"} : InitializeDone(k)
          \/ \E p \in DOMAIN procs : \E line \in Answers(p) :
               HandleLine(p, line)
          \/ \E p \in DOMAIN procs : \E c \in ExitCodes : ProcExit(p, c)
          \/ \E p \in DOMAIN procs : ProcError(p)
          \/ \E o \in SpawnOutcomes : BackoffElapsed(o)
          \/ RetryCatch

SpecStartup ==
    /\ InitStartup
    /\ [][NextStartup]_vars
    /\ EventLoop
    /\ WF_vars(\E o \in SpawnOutcomes : svc.pc = "mainStart" /\ Start(o))
    /\ WF_vars(\E servers \in CustomServers : MainStartReturns(servers))
    /\ WF_vars(\E reply \in {Rejects, [tools |-> <<>>]} :
                 \E servers \in CustomServers :
                   MainListSettled(reply, servers))
    /\ WF_vars(\E ok \in BOOLEAN : ExternalStartSettled(ok))
    /\ WF_vars(\E reply \in {Rejects, [tools |-> <<>>]} :
                 ExternalListSettled(reply))

\* C1 (Correlation): whenever a response line settles a request, the request
\* is the one registered under the line's id and it receives the payload
\* that answers its own argument, whatever else is pending and in whatever
\* order the lines arrive.
Correlation ==
    \A s \in lastOp.settled :
        s.how \in {"result", "rpc"} => s.t = s.id /\ s.value = s.arg

\* a response overtook the response to an older request that is still pending
CorrelationWitness ==
    /\ lastOp.op = "line"
    /\ \E s \in lastOp.settled :
          /\ s.how = "result"
          /\ s.owner = "call"
          /\ \E u \in DOMAIN pending : u < s.t /\ pending[u].owner = "call"

\* C2 (Exactly one resolution per token): no promise is settled twice, and a
\* response line whose id is not in the pending table leaves the pending
\* table, the readiness flag and the retry counter unchanged.
ExactlyOnce ==
    [][/\ \A t \in DOMAIN settles' : settles'[t] <= 1
       /\ lastOp'.op = "line" =>
             /\ \A s \in lastOp'.settled : s.id \in DOMAIN pending
             /\ lastOp'.settled = {} => UNCHANGED <<pending, ready, retries>>
     ]_vars

\* a line was taken in while an already settled token existed and another
\* request was pending
ExactlyOnceWitness ==
    /\ lastOp.op = "line"
    /\ lastOp.settled = {}
    /\ pending # EmptyMap
    /\ \E t \in DOMAIN settles : settles[t] = 1

\* C3 (Pending-table invariant): the tokens in the pending table are exactly
\* the generated tokens whose promise is not settled, and a listTools or
\* callTool that was just issued is either rejected or has a pending entry.
PendingTable ==
    /\ DOMAIN pending = {t \in 1..issued : settles[t] = 0}
    /\ lastOp.op \in {"listTools", "callTool"} =>
          \/ lastOp.t \in DOMAIN pending /\ lastOp.settled = {}
          \/ lastOp.t = 0 /\ \E s \in lastOp.settled : s.how = "notRunning"

\* a call issued before the handshake completed, queued behind start()'s
\* initialize request
PendingTableWitness ==
    /\ lastOp.op = "callTool"
    /\ ~ready
    /\ lastOp.t \in DOMAIN pending
    /\ \E u \in DOMAIN pending : pending[u].owner = "start"

\* ---------------------------------------------------------------------
\* Process supervisor

\* the run that produced the next state is the exit or error listener of a
\* child, taken while the bridge is not stopped (for an exit: code # 0)
Crashes ==
    /\ ~stopped
    /\ \/ lastOp'.op = "exit" /\ lastOp'.code # 0
       \/ lastOp'.op = "error"
    /\ \E p \in DOMAIN procs : procs[p].st # "dead" /\ procs'[p].st = "dead"

\* C4 (Crash rejection): the exit (code # 0) or error of a child while the
\* bridge is not stopped clears the readiness flag, rejects every pending
\* call with "process crashed" and empties the pending table in that step;
\* with the retry counter below 3 it counts one retry, logs "retry k/3" and
\* schedules the restart; the first crash after ready logs "retry 1/3".
CrashRejection ==
    [][Crashes =>
         /\ ~ready'
         /\ pending' = EmptyMap
         /\ lastOp'.settled = Rejected("crashed")
         /\ retries < MAX_RETRIES =>
               /\ retries' = retries + 1
               /\ lastOp'.log = retries'
               /\ timers' = timers + 1
               /\ ~lastOp'.err
         /\ ready => lastOp'.log = 1
     ]_vars

\* a child exited after ready with two calls pending: both were rejected
\* and "retry 1/3" was logged
CrashRejectionWitness ==
    /\ lastOp.op = "exit"
    /\ lastOp.log = 1
    /\ everReady
    /\ Cardinality({s \in lastOp.settled :
                       s.how = "crashed" /\ s.owner = "call"}) = 2
    /\ pending = EmptyMap
    /\ timers = 1

\* C8 (stop() post-state): after stop() the stopping flag is set, the
\* readiness flag is false, every pending call was rejected with "Bridge
\* stopped", the pending table is empty, the line reader is closed and
\* released, and the child was sent SIGTERM and released.
StopPostState ==
    [][lastOp'.op = "stop" =>
         /\ stopped'
         /\ ~ready'
         /\ lastOp'.settled = Rejected("stopped")
         /\ pending' = EmptyMap
         /\ rl' = 0
         /\ rl # 0 => procs'[rl].rl = "closed"
         /\ proc' = 0
         /\ proc # 0 /\ procs[proc].st = "alive" => procs'[proc].killed
     ]_vars

\* stop() of a ready bridge with a call pending
StopPostStateWitness ==
    /\ lastOp.op = "stop"
    /\ \E s \in lastOp.settled : s.how = "stopped" /\ s.owner = "call"
    /\ everReady
    /\ \E p \in DOMAIN procs : procs[p].killed /\ procs[p].rl = "closed"

\* C9 (Idempotent stop): isReady() is false after every stop(), and a
\* stop() that directly follows a stop() changes no field of the bridge, no
\* child and no scheduled continuation.
IdempotentStop ==
    [][lastOp'.op = "stop" =>
         /\ ~isReady'
         /\ lastOp.op = "stop" =>
               /\ UNCHANGED <<proc, rl, pending, ready, retries, stopped,
                              procs, settles, timers, micro>>
               /\ lastOp'.settled = {}
     ]_vars

\* a second stop() in a row
IdempotentStopWitness ==
    lastOp.op = "stop" /\ lastOp.again /\ Len(procs) > 0

\* C5 (Retry exhaustion): when a bridge that was started once and never
\* stopped emits "error", handleCrash has re-spawned the child exactly 3
\* times since the last handshake, and after the "error" event it re-spawns
\* no child until start() is called again.
RetryExhaustion ==
    [][starts' = 1 /\ everReady /\ ~stopped' =>
         /\ lastOp'.err => respawns = MAX_RETRIES
         /\ errSinceStart => lastOp'.op # "respawn"
     ]_vars

\* C6 (No automatic retry on the initial start): as long as no handshake
\* has completed, no retry is counted or logged, no restart is scheduled
\* and no child is re-spawned.
NoRetryOnInitialStart ==
    ~everReady =>
        retries = 0 /\ timers = 0 /\ respawns = 0 /\ lastOp.log = 0

\* C7 (Intentional stop is never a crash): the exit of a child that stop()
\* terminated starts no crash handling: no "process crashed" rejection, no
\* retry log, no "error" event, no retry counted, no restart scheduled.
IntentionalStop ==
    [][\A p \in DOMAIN procs :
         procs[p].killed /\ procs'[p].st = "dead" =>
            /\ retries' = retries
            /\ timers' = timers
            /\ lastOp'.log = 0
            /\ ~lastOp'.err
            /\ \A s \in lastOp'.settled : s.how # "crashed"
     ]_vars

\* C10 (Readiness flag): the readiness flag is true only if the child the
\* process handle refers to has completed the initialize handshake (the
\* part of the claim about the current child; stop() and handleCrash do
\* clear the flag).
ReadinessFlag ==
    ready => proc # 0 /\ procs[proc].hs

\* ---------------------------------------------------------------------
\* Readiness and handshake

\* C11 (Readiness implies a live process): whenever isReady() returns true
\* the child the process handle refers to is running: its exit, with any
\* status, or its spawn error has not been delivered.
ReadyImpliesAlive ==
    isReady => procs[proc].st = "alive"

\* C12 (start() succeeds exactly when the handshake completes): a start()
\* resolves only in the continuation of a result response to its own
\* initialize request, that response comes from the child this start()
\* spawned, and isReady() is true when it resolves.
StartResolves ==
    [][lastOp'.op = "readyStart" =>
         /\ isReady'
         /\ lastOp.op = "line"
         /\ \E s \in lastOp.settled :
               /\ s.owner = "start"
               /\ s.how = "result"
               /\ s.proc = s.spawned
     ]_vars

\* C13 (Handshake ordering): `notifications/initialized` is written only to
\* a child that has answered an initialize request with a result; the
\* notification and the setting of the readiness flag happen only in the
\* continuation of such a result; and the rejection of an initialize
\* request (error response, crash, stop) queues no such continuation.
HandshakeOrdering ==
    [][/\ \A p \in DOMAIN procs' : procs'[p].notified => procs'[p].hs
       /\ \/ ready' /\ ~ready
          \/ \E p \in DOMAIN procs : procs'[p].notified /\ ~procs[p].notified
          => lastOp'.op \in {"readyStart", "readyCrash"}
       /\ \A s \in lastOp'.settled :
             s.owner \in {"start", "crash"} /\ s.how # "result" =>
                /\ micro'["readyStart"] = micro["readyStart"]
                /\ micro'["readyCrash"] = micro["readyCrash"]
     ]_vars

\* C14 (The handshake re-runs after every automatic restart): when the
\* readiness flag becomes true after a crash was counted or a child was
\* re-spawned, it does so in the continuation of an initialize result, and
\* the child the process handle then refers to, the newly spawned one, has
\* answered an initialize request with a result.
HandshakeReruns ==
    [][ready' /\ ~ready /\ (retries > 0 \/ respawns > 0) =>
         /\ lastOp'.op \in {"readyStart", "readyCrash"}
         /\ proc' # 0
         /\ procs'[proc'].hs
     ]_vars

\* ---------------------------------------------------------------------
\* Retry budget

\* C15 (Retry counter reset): the continuation of every successful
\* handshake, of start() or of an automatic restart, leaves the retry
\* counter at zero, and the counter is zero whenever the readiness flag is
\* true, so that the next crash is retry 1 of 3.
RetryCounterReset ==
    [][/\ lastOp'.op \in {"readyStart", "readyCrash"} =>
             retries' = 0 /\ ready'
       /\ ready' => retries' = 0
     ]_vars

\* the handshake of the first re-spawned child completed: the crash of
\* child 1 had been counted, and the counter is back at zero
RetryCounterResetWitness ==
    /\ lastOp.op = "readyCrash"
    /\ Len(procs) = 2
    /\ procs[1].hs /\ procs[2].hs
    /\ ready
    /\ retries = 0

\* C16 (Retry counter meaning): whenever handleCrash has just re-spawned a
\* child, the retry counter equals the number of re-spawns made since the
\* last successful handshake: every failed restart attempt has raised the
\* counter by exactly one.
RetryCounterMeaning ==
    [][lastOp'.op = "respawn" => retries' = respawns']_vars

\* C17 (Bounded recovery): the retry counter stays within 0..3, and since
\* the last successful handshake handleCrash has re-spawned at most 3
\* children, whatever the order of exits, spawn errors, back-off timers and
\* handshake failures.
BoundedRecovery ==
    /\ retries \in 0..MAX_RETRIES
    /\ respawns <= MAX_RETRIES

\* C18 (Destruction on irrecoverable crash): when handleCrash has found the
\* retry budget exhausted and emitted "error", no child spawned by the
\* bridge is running, the pending table is empty and the readiness flag is
\* false.
DestroyedOnExhaustion ==
    lastOp.err =>
        /\ \A p \in DOMAIN procs : procs[p].st # "alive"
        /\ pending = EmptyMap
        /\ ~ready

\* ---------------------------------------------------------------------
\* Error isolation

\* C19 (Caller misuse): a listTools() or callTool() issued while isReady()
\* is false or while the child's stdin is not writable is rejected in the
\* same run; it generates no token, writes no request, creates no pending
\* entry and leaves every other pending entry, the readiness flag and the
\* retry counter unchanged.
CallerMisuse ==
    [][lastOp'.op \in {"listTools", "callTool"} /\ (~isReady \/ ~Writable) =>
         /\ lastOp'.t = 0
         /\ \E s \in lastOp'.settled : s.how = "notRunning"
         /\ UNCHANGED <<pending, issued, ready, retries>>
     ]_vars

\* C20 (Protocol-error isolation): a response line with an error member
\* rejects, in handleLine, exactly the promise registered under the line's
\* id, with that response's error, removes that entry alone from the
\* pending table and leaves the readiness flag, the retry counter, the
\* process handle, the line reader and the back-off timers unchanged.
ProtocolErrorIsolation ==
    [][\A s \in lastOp'.settled : s.how = "rpc" =>
         /\ lastOp'.op = "line"
         /\ lastOp'.settled = {s}
         /\ s.t = s.id
         /\ s.t \in DOMAIN pending
         /\ s.value = s.arg
         /\ pending' = [u \in DOMAIN pending \ {s.t} |-> pending[u]]
         /\ UNCHANGED <<ready, retries, proc, rl, stopped, timers>>
     ]_vars

\* an error response rejected one call of a ready bridge while an older
\* call stayed pending
ProtocolErrorIsolationWitness ==
    /\ lastOp.op = "line"
    /\ ready
    /\ \E s \in lastOp.settled :
          /\ s.how = "rpc"
          /\ s.owner = "call"
          /\ \E u \in DOMAIN pending : u < s.t /\ pending[u].owner = "call"


\* C21  Malformed-line resilience: a stdout line that is not JSON, or whose
\* JSON value has no token (an object without id, a number, a string, the
\* value null), lets no exception escape handleLine, settles no call and
\* leaves the pending table, the ready flag and the retry counter unchanged.
MalformedLines == {"garbage", "noid", "null"}

MalformedLineResilience ==
    [][(lastOp'.op = "line" /\ lastOp'.line \in MalformedLines)
         => /\ ~lastOp'.threw
            /\ lastOp'.settled = {}
            /\ pending' = pending
            /\ ready' = ready
            /\ retries' = retries]_vars


\* C22  callTool result mapping: when the result's isError flag is set,
\* callTool fails with a message that is the concatenation of the texts of
\* the content blocks that have a text, or the generic message when no block
\* has one (content absent, empty, or without text); otherwise it returns
\* the result object unchanged.
CallToolResultMapping ==
    (ret.method = "callTool" /\ ret.done)
      => LET r == ret.result
             blocks == IF "content" \in DOMAIN r THEN r.content ELSE <<>>
             textual == SelectSeq(blocks, LAMBDA c : "text" \in DOMAIN c)
         IN
         IF IsError(r)
         THEN /\ ret.out.throws
              /\ ret.out.message =
                   IF textual = <<>> THEN "MCP tool error"
                   ELSE Join([i \in DOMAIN textual |-> textual[i].text], "\n")
         ELSE /\ ~ret.out.throws
              /\ ret.out.value = r


\* C23  listTools does not cache: every listTools() made while the child's
\* stdin is writable issues a new request under a token never used before,
\* and what a call returns is the tools array of the response to its own
\* request, or the empty sequence when that response has no tools member;
\* never what an earlier call got.
ListToolsNoCache ==
    [][/\ (lastOp'.op = "listTools" /\ Writable)
          => /\ lastOp'.t = issued + 1
             /\ lastOp'.t \notin DOMAIN pending
             /\ lastOp'.t \in DOMAIN pending'
             /\ pending'[lastOp'.t].proc = proc
             /\ pending'[lastOp'.t].arg = calls'
       /\ (ret' # ret)
          => /\ ret'.of = ret'.arg
             /\ ret'.out = IF "tools" \in DOMAIN ret'.result
                           THEN ret'.result.tools ELSE <<>>]_vars

ListToolsNoCacheWitness ==
    /\ ret.method = "listTools"
    /\ ret.arg = 2
    /\ settles[1] = 1
    /\ "tools" \in DOMAIN ret.result
    /\ Len(ret.out) = MaxTools


\* C24  Notify is fire-and-forget: the notification sent at the end of the
\* handshake generates no token, creates no pending entry and settles
\* nothing; it is written to the current child when its stdin is writable,
\* and otherwise it is dropped: no exception, and no child is touched.
NotifyFireAndForget ==
    [][(lastOp'.op \in {"readyStart", "readyCrash"})
         => /\ lastOp'.t = 0
            /\ issued' = issued
            /\ pending' = pending
            /\ settles' = settles
            /\ lastOp'.settled = {}
            /\ ~lastOp'.threw
            /\ IF Writable
               THEN /\ procs'[proc].notified
                    /\ \A p \in DOMAIN procs : p # proc => procs'[p] = procs[p]
               ELSE procs' = procs]_vars

NotifyFireAndForgetWitness ==
    /\ lastOp.op \in {"readyStart", "readyCrash"}
    /\ ~Writable
    /\ proc # 0


\* C25  Back-off ordering: a back-off is only started by a crash handler
\* that emitted its retry log, a crash handler re-spawns only when its
\* back-off has elapsed, and a crash handler whose back-off was still
\* running when stop() was called never re-spawns a process.
BackoffOrdering ==
    [][/\ (timers' > timers) => lastOp'.log # 0
       /\ (lastOp'.op = "respawn") => (timers > 0 /\ cancelled = 0)]_vars


\* C26  No silent data loss: every promise the bridge rejects is rejected
\* with the reason of the code that rejected it: "Bridge stopped" by stop(),
\* "MCP process crashed: ..." by crash handling, "MCP process not running"
\* by a request made while stdin is not writable, "MCP error ..." by a
\* response line with an error member; and no other run rejects anything.
RejectionReasons ==
    \A s \in lastOp.settled :
        /\ s.how \in {"result", "rpc", "stopped", "crashed", "notRunning"}
        /\ s.how = "stopped" <=> lastOp.op = "stop"
        /\ s.how = "crashed" <=> lastOp.op \in {"exit", "error", "catch"}
        /\ s.how = "notRunning"
             <=> lastOp.op \in {"listTools", "callTool", "initialize"}
        /\ s.how \in {"result", "rpc"} <=> lastOp.op = "line"

RejectionReasonsWitness ==
    /\ lastOp.op = "exit"
    /\ \E s \in lastOp.settled : s.owner = "call" /\ s.how = "crashed"
    /\ \E t \in DOMAIN settles :
         settles[t] = 1 /\ t \notin {s.t : s \in lastOp.settled}


\* C30  Single child process: in every reachable state at most one child
\* process of the bridge is alive, also when start() is called twice or
\* during a back-off.
SingleChild ==
    Cardinality({p \in DOMAIN procs : procs[p].st = "alive"}) <= 1


ContextInjection ==
    LET others == {GuardNotice(Null),
                   formatSkillSuggestions(<<[key |-> "sql"]>>, suggestLimit)}
        tails == SeqsUpTo(others, 2)
    IN
    \A i \in DOMAIN frames :
       (/\ frames[i].kind = "hook"
        /\ frames[i].pc = "done"
        /\ pluginCfg.autoInjectContext # "false")
         => /\ "prependContext" \in DOMAIN frames[i].out
            /\ frames[i].out.prependContext
                 \in {Join(<<SAGE_CONTEXT>> \o t, "\n\n") : t \in tails}

ContextInjectionWitness ==
    \E i \in DOMAIN frames :
       /\ frames[i].kind = "hook"
       /\ frames[i].pc = "done"
       /\ frames[i].failed
       /\ frames[i].scan = Null
       /\ Len(frames[i].prompt) >= minPromptLen
       /\ injectionGuardScanAgentPrompt
       /\ pluginCfg.autoInjectContext # "false"


\* C29  Injection guard: unless injectionGuardEnabled is true no
\* security_scan_text call is ever made; and when the scan of the content
\* fetched by sage_get_prompt reports shouldBlock, the tool returns, in
\* block mode, an error result that holds nothing of the fetched result,
\* and otherwise the fetched content with the security summary attached.
InjectionGuard ==
    /\ (pluginCfg.injectionGuardEnabled # "true")
         => /\ scanCalls = 0
            /\ \A i \in DOMAIN frames : frames[i].pc # "scan"
    /\ \A i \in DOMAIN frames :
         LET f == frames[i] IN
         (/\ f.kind = "execute"
          /\ f.pc = "done"
          /\ registered[f.tool].name = "sage_get_prompt"
          /\ ShouldBlock(f.scan))
           => IF pluginCfg.injectionGuardMode = "block"
              THEN /\ f.out.details =
                        [error |-> "Blocked: prompt content flagged by security scanning (level=UNKNOWN)"]
                   /\ f.out.content =
                        <<[type |-> "text",
                           text |-> "{error:" \o f.out.details.error \o "}"]>>
              ELSE /\ f.out.details = f.raw
                   /\ f.out.content =
                        <<[type |-> "text",
                           text |-> "{prompt:{content:do X},security:{shouldBlock:true,summary:level=UNKNOWN}}"]>>

InjectionGuardWitness ==
    /\ pluginCfg.injectionGuardMode = "block"
    /\ \E i \in DOMAIN frames :
         /\ frames[i].kind = "execute"
         /\ frames[i].pc = "done"
         /\ registered[frames[i].tool].name = "sage_get_prompt"
         /\ ShouldBlock(frames[i].scan)
    /\ \E i \in DOMAIN frames :
         /\ frames[i].kind = "hook"
         /\ frames[i].pc = "done"


\* ---------------------------------------------------------------------
\* Crash handling, stop and the life of a request

\* C31  Crash handling is scoped to the crashed process: the run of the exit
\* or error listener of child p rejects only requests that were written to
\* p, leaves the requests written to another child pending, and changes the
\* readiness flag only if p is the child the process handle refers to.
CrashScope ==
    [][\A p \in DOMAIN procs :
         (/\ procs[p].st # "dead"
          /\ procs'[p].st = "dead"
          /\ lastOp'.op \in {"exit", "error"})
           => /\ \A s \in lastOp'.settled : s.proc = p
              /\ \A t \in DOMAIN pending :
                    pending[t].proc # p => t \in DOMAIN pending'
              /\ proc # p => ready' = ready]_vars


\* C32  Terminal error: "error" is emitted only by a run that finds the
\* retry counter at 3, and at most once per crash episode: the episode ends
\* with the emission, so the run that follows an emission emits "error"
\* again only if it is the exit or error listener of a child, the start of
\* another episode.
TerminalErrorOnce ==
    [][lastOp'.err =>
         /\ retries = MAX_RETRIES
         /\ retries' = MAX_RETRIES
         /\ lastOp.err => lastOp'.op \in {"exit", "error"}]_vars


\* C33  stop() produces no crash-policy effect: when stop() rejects the
\* initialize request of an automatic restart in progress, the continuation
\* of that rejection (the only one queued) logs no retry, leaves the retry
\* counter alone and emits no "error".
StopIsNoCrash ==
    [][(/\ lastOp.op = "stop"
        /\ \E s \in lastOp.settled : s.owner = "crash"
        /\ micro["catch"] = 1
        /\ lastOp'.op = "catch")
         => /\ lastOp'.log = 0
            /\ retries' = retries
            /\ ~lastOp'.err]_vars


\* C34  No request outlives its process: a request that is pending while
\* the child it was written to has terminated, with whatever exit status,
\* is eventually settled, the initialize request of start() included, also
\* when the caller never calls stop().
NoRequestOutlivesProcess ==
    \A t \in 1..(MaxProcs + MaxCalls) :
        (t \in DOMAIN pending /\ procs[pending[t].proc].st = "dead")
          ~> (t \notin DOMAIN pending)


\* C35  Plugin service stop is complete: once the service's stop() has
\* returned, the bridge the service created for its external server, whether
\* its start() succeeded or failed, has no running child that was not sent
\* SIGTERM and no automatic restart under way (no back-off timer that will
\* re-spawn, no re-spawned child being initialised), and externalBridges is
\* empty.
ServiceStopComplete ==
    svc.pc = "stopped" =>
        /\ \A p \in DOMAIN procs : procs[p].st = "alive" => procs[p].killed
        /\ timers > 0 => stopped
        /\ micro["initCrash"] = 0
        /\ svc.externalBridges = <<>>


\* ---------------------------------------------------------------------
\* The plugin: tools, service, scan cache

\* C36  Registered tools never throw: every execute that has ended has
\* returned a tool result, one text block and details; when the callTool
\* behind it was rejected, the details are an object whose error member is
\* the message of the rejection, and the text is that object as JSON.
ToolsNeverThrow ==
    \A i \in DOMAIN frames :
        LET f == frames[i] IN
        (f.kind = "execute" /\ f.pc = "done")
          => /\ DOMAIN f.out = {"content", "details"}
             /\ Len(f.out.content) = 1
             /\ f.out.content[1].type = "text"
             /\ f.raw = Rejects
                  => /\ f.out.details = [error |-> Rejects.message]
                     /\ f.out.content[1].text
                          = "{error:" \o Rejects.message \o "}"

\* the call of one tool was rejected; the get_prompt of another execute was
\* blocked by the guard, whose throw takes the same catch
ToolsNeverThrowWitness ==
    /\ \E i \in DOMAIN frames :
         /\ frames[i].kind = "execute"
         /\ frames[i].pc = "done"
         /\ frames[i].raw = Rejects
    /\ \E i \in DOMAIN frames :
         /\ frames[i].kind = "execute"
         /\ frames[i].pc = "done"
         /\ ShouldBlock(frames[i].scan)
         /\ "error" \in DOMAIN frames[i].out.details


\* C37  Plugin service start isolates failures: when the main bridge has
\* failed to start, every child it spawned having terminated while the
\* service waits for its start(), the service's start() goes on to the
\* external servers and returns.
StartIsolatesFailures ==
    (/\ svc.pc = "mainStart"
     /\ starts = 1
     /\ \A p \in DOMAIN procs : procs[p].st = "dead")
      ~> (svc.pc = "done")


\* C38  Scan cache bound: the scan cache never holds more than 256 entries,
\* whatever the order in which concurrent scanText calls settle; and when a
\* result is inserted into a cache of 256 entries, the entry that goes is
\* the first in insertion order, the one whose key has been in the cache
\* longest: every other entry stays, in order, and the new result is in.
ScanCacheBound ==
    [][/\ Len(scanCache') <= 256
       /\ \A i \in DOMAIN frames :
            (/\ frames[i].pc = "scan"
             /\ frames'[i].pc # "scan"
             /\ ~frames'[i].failed
             /\ Len(scanCache) = 256)
              => LET k == frames[i].key
                     rest == Tail(scanCache)
                 IN
                 /\ Head(scanCache).key # k
                      => \A m \in DOMAIN scanCache' :
                            scanCache'[m].key # Head(scanCache).key
                 /\ \A j \in DOMAIN rest :
                      rest[j].key # k => scanCache'[j] = rest[j]
                 /\ \E m \in DOMAIN scanCache' :
                      /\ scanCache'[m].key = k
                      /\ scanCache'[m].ts = frames[i].now]_vars

\* two scans of new texts, under way at the same time, have settled on a
\* full cache: the two oldest entries are gone, the two results are in
ScanCacheBoundWitness ==
    /\ Len(scanCache) = 256
    /\ scanCache[1].key = "k3"
    /\ scanCache[255].key = "do X"
    /\ scanCache[256].key = "hi"
    /\ scanCache[255].ts = scanCache[256].ts


\* C39  Scan cache freshness: a scanText call returns a cached scan without
\* calling the bridge if and only if the cache holds an entry for the same
\* trimmed text that is younger than 5 minutes; otherwise it invokes
\* security_scan_text.  Only the result of a call that succeeded is cached:
\* a failed scan returns null and leaves the cache unchanged.
ScanCacheFreshness ==
    [][/\ \A i \in DOMAIN frames' :
            (/\ frames'[i].text # ""
             /\ i \in DOMAIN frames => frames[i].text = "")
              => LET text == frames'[i].text
                     fresh == {j \in DOMAIN scanCache :
                                 /\ scanCache[j].key = Trim(text)
                                 /\ clock - scanCache[j].ts < 5}
                 IN
                 IF fresh # {}
                 THEN /\ frames'[i].pc # "scan"
                      /\ scanCalls' = scanCalls
                      /\ \E j \in fresh : frames'[i].scan = scanCache[j].scan
                 ELSE /\ frames'[i].pc = "scan"
                      /\ scanCalls' = scanCalls + 1
       /\ \A i \in DOMAIN frames :
            (frames[i].pc = "scan" /\ frames'[i].pc # "scan")
              => IF frames'[i].failed
                 THEN frames'[i].scan = Null /\ scanCache' = scanCache
                 ELSE \E m \in DOMAIN scanCache' :
                         /\ scanCache'[m].key = frames[i].key
                         /\ scanCache'[m].scan = frames'[i].scan
       /\ scanCache' # scanCache
            => \E i \in DOMAIN frames :
                  /\ frames[i].pc = "scan"
                  /\ frames'[i].pc # "scan"
                  /\ ~frames'[i].failed]_vars

\* C39, amended: as above, for a text that is not blank; a scanText call
\* with a blank text returns null without calling the bridge and leaves the
\* cache unchanged.  The age of an entry counts from the start of the call
\* that produced it.
ScanCacheFreshnessNonBlank ==
    [][/\ \A i \in DOMAIN frames' :
            (/\ frames'[i].text # ""
             /\ i \in DOMAIN frames => frames[i].text = "")
              => LET text == frames'[i].text
                     fresh == {j \in DOMAIN scanCache :
                                 /\ scanCache[j].key = Trim(text)
                                 /\ clock - scanCache[j].ts < 5}
                 IN
                 IF Trim(text) = ""
                 THEN /\ frames'[i].pc # "scan"
                      /\ scanCalls' = scanCalls
                      /\ frames'[i].scan = Null
                      /\ scanCache' = scanCache
                 ELSE IF fresh # {}
                 THEN /\ frames'[i].pc # "scan"
                      /\ scanCalls' = scanCalls
                      /\ \E j \in fresh : frames'[i].scan = scanCache[j].scan
                 ELSE /\ frames'[i].pc = "scan"
                      /\ frames'[i].now = clock
                      /\ scanCalls' = scanCalls + 1
       /\ \A i \in DOMAIN frames :
            (frames[i].pc = "scan" /\ frames'[i].pc # "scan")
              => IF frames'[i].failed
                 THEN frames'[i].scan = Null /\ scanCache' = scanCache
                 ELSE \E m \in DOMAIN scanCache' :
                         /\ scanCache'[m].key = frames[i].key
                         /\ scanCache'[m].ts = frames[i].now
                         /\ scanCache'[m].scan = frames'[i].scan
       /\ scanCache' # scanCache
            => \E i \in DOMAIN frames :
                  /\ frames[i].pc = "scan"
                  /\ frames'[i].pc # "scan"
                  /\ ~frames'[i].failed]_vars

\* one run scanned a text that an earlier run had cached and got the
\* cached scan without a call; minutes later the entry was too old and the
\* text was scanned again
ScanCacheFreshnessWitness ==
    /\ Len(frames) = 2
    /\ frames[1].text = "do X"
    /\ frames[2].text = "do X"
    /\ frames[1].pc = "done"
    /\ frames[2].pc = "done"
    /\ frames[1].now = 0
    /\ \/ frames[2].key = "" /\ frames[2].scan # Null /\ scanCalls = 1
       \/ frames[2].now = 5 /\ scanCalls = 2 /\ frames[2].failed

TypeOK ==
    /\ proc \in 0..Len(procs)
    /\ rl \in 0..Len(procs)
    /\ DOMAIN pending \subseteq 1..issued
    /\ retries \in 0..MAX_RETRIES
    /\ Len(procs) <= limit.procs

====
